---- MODULE Spec2Model ----
(***************************************************************************)
(* Model of the "RAW data view" Streamlit page (src/streamlit_app.py and   *)
(* its near-duplicate src/app.py): the memoized credential resolver        *)
(* authorize_gspread, the TTL-cached table loader load_simple_data and the *)
(* page script that selects columns, filters by cluster and shows a mean.  *)
(*                                                                         *)
(* TLA+ strings are ASCII only, so the Korean column names are written by  *)
(* their meaning:                                                          *)
(*   "cluster" = '클러스터'   "empno" = '사번'   "name" = '이름'                *)
(*   "dept"    = '부서명'     "hours" = '누적시간'                            *)
(* and a text value is a sequence of one-character strings; the two        *)
(* syllables of the filter sentinel  '전체'  are the characters "JEON" and   *)
(* "CHE".  Numbers are exact: a finite number is an integer count of       *)
(* tenths (12.5 is 125).                                                   *)
(***************************************************************************)
EXTENDS Integers, Sequences, FiniteSets, TLC

VARIABLES
    variant,   \* which entry point the process runs: "streamlit_app" | "app"
    env,       \* the credential sources as they are now: [file, secret]
    memo,      \* st.cache_resource entry of authorize_gspread
    cache,     \* st.cache_data entries of load_simple_data: key -> entry
    now,       \* the process clock, in seconds
    run,       \* the page run in progress: position, locals, what it rendered
    call,      \* the last load_simple_data call: arguments, what it did
    hist       \* history: counts of resolver work, first result, populations

vars == <<variant, env, memo, cache, now, run, call, hist>>

(***************************************************************************)
(* Bounds of the model.                                                    *)
(***************************************************************************)
MaxRuns == 2

MaxSessions == 2

MaxClock == 300

MaxCalls == 3

MaxViewRows == 2

(***************************************************************************)
(* Values: the cells of a sheet and the floats pandas computes.            *)
(***************************************************************************)
Str(s) == [t |-> "str", s |-> s, v |-> 0]
Fin(v) == [t |-> "fin", s |-> <<>>, v |-> v]
PInf   == [t |-> "inf", s |-> <<>>, v |-> 1]
NInf   == [t |-> "inf", s |-> <<>>, v |-> -1]
NaN    == [t |-> "nan", s |-> <<>>, v |-> 0]

IsNum(c) == c.t \in {"fin", "inf", "nan"}

Digits == {"0", "1", "2", "3", "4", "5", "6", "7", "8", "9"}

DigitVal(c) ==
    CASE c = "0" -> 0 [] c = "1" -> 1 [] c = "2" -> 2 [] c = "3" -> 3
      [] c = "4" -> 4 [] c = "5" -> 5 [] c = "6" -> 6 [] c = "7" -> 7
      [] c = "8" -> 8 [] c = "9" -> 9

DigitChar(d) ==
    CASE d = 0 -> "0" [] d = 1 -> "1" [] d = 2 -> "2" [] d = 3 -> "3"
      [] d = 4 -> "4" [] d = 5 -> "5" [] d = 6 -> "6" [] d = 7 -> "7"
      [] d = 8 -> "8" [] d = 9 -> "9"

\* Unicode code points of the characters the model's texts are made of.
CharCode(c) ==
    CASE c = "-" -> 45 [] c = "." -> 46
      [] c \in Digits -> 48 + DigitVal(c)
      [] c = "A" -> 65 [] c = "B" -> 66
      [] c = "a" -> 97 [] c = "b" -> 98 [] c = "c" -> 99
      [] c = "f" -> 102 [] c = "i" -> 105 [] c = "n" -> 110
      [] c = "JEON" -> 51204 [] c = "CHE" -> 52404

AllDigits(s) == \A i \in 1..Len(s) : s[i] \in Digits

RECURSIVE IntVal(_)
IntVal(s) ==
    IF s = <<>> THEN 0
    ELSE IntVal(SubSeq(s, 1, Len(s) - 1)) * 10 + DigitVal(s[Len(s)])

\* An unsigned decimal literal, in tenths.  "20", "15.5", "5." and ".5" are
\* numbers; "", "." and "abc" are not.  The cells of the model carry at most
\* one fractional digit, which is what a count of tenths can hold.
ParseUnsigned(s) ==
    LET dots == {i \in 1..Len(s) : s[i] = "."} IN
    IF dots = {}
    THEN IF s # <<>> /\ AllDigits(s) THEN Fin(IntVal(s) * 10) ELSE NaN
    ELSE IF Cardinality(dots) = 1
    THEN LET d  == CHOOSE i \in dots : TRUE
             ip == SubSeq(s, 1, d - 1)
             fp == SubSeq(s, d + 1, Len(s))
         IN  IF AllDigits(ip) /\ AllDigits(fp) /\ Len(ip) + Len(fp) > 0
                /\ Len(fp) <= 1
             THEN Fin(IntVal(ip) * 10 + IntVal(fp))
             ELSE NaN
    ELSE NaN

Negate(x) ==
    CASE x.t = "fin" -> Fin(0 - x.v)
      [] x.t = "inf" -> [x EXCEPT !.v = 0 - x.v]
      [] OTHER -> x

\* pandas' float parser on one text: the IEEE words "inf", "-inf" and "nan"
\* are floats; anything that is no number is NaN under errors='coerce'.
ParseStr(s) ==
    IF s = <<"i", "n", "f">> THEN PInf
    ELSE IF s = <<"-", "i", "n", "f">> THEN NInf
    ELSE IF s = <<"n", "a", "n">> THEN NaN
    ELSE IF s # <<>> /\ s[1] = "-" THEN Negate(ParseUnsigned(Tail(s)))
    ELSE ParseUnsigned(s)

\* pd.to_numeric(x, errors='coerce') on one element: a number stays, a text
\* is parsed.
to_numeric(c) == IF c.t = "str" THEN ParseStr(c.s) ELSE c

\* .fillna(0) on one element.
fillna0(x) == IF x.t = "nan" THEN Fin(0) ELSE x

(***************************************************************************)
(* Python's ordering of cell values, as sorted() uses it.                  *)
(***************************************************************************)
RECURSIVE LexLess(_, _)
LexLess(s, u) ==
    IF u = <<>> THEN FALSE
    ELSE IF s = <<>> THEN TRUE
    ELSE IF CharCode(s[1]) # CharCode(u[1]) THEN CharCode(s[1]) < CharCode(u[1])
    ELSE LexLess(Tail(s), Tail(u))

\* a < b for two values of one type (text by code point, numbers by value).
CellLess(a, b) ==
    IF a.t = "str" THEN LexLess(a.s, b.s)
    ELSE IF a.t = "inf" THEN a.v < 0 /\ b # a
    ELSE IF b.t = "inf" THEN b.v > 0
    ELSE a.v < b.v

RECURSIVE SortSet(_)
SortSet(S) ==
    IF S = {} THEN <<>>
    ELSE LET m == CHOOSE x \in S : \A y \in S \ {x} : CellLess(x, y)
         IN  <<m>> \o SortSet(S \ {m})

\* sorted(values): text and numbers do not compare ('<' raises TypeError).
sorted(S) ==
    IF (\E a \in S : a.t = "str") /\ (\E b \in S : IsNum(b))
    THEN [ok |-> FALSE, val |-> <<>>]
    ELSE [ok |-> TRUE, val |-> SortSet(S)]

(***************************************************************************)
(* Series.mean() and the format  f"{avg_hours:.1f}".                       *)
(***************************************************************************)
RECURSIVE SumFin(_)
SumFin(vals) ==
    IF vals = <<>> THEN 0
    ELSE (IF vals[1].t = "fin" THEN vals[1].v ELSE 0) + SumFin(Tail(vals))

\* The mean as pandas computes it (NaN entries are skipped): a fraction
\* num/den of tenths, or an IEEE special.
mean(vals) ==
    LET kept == SelectSeq(vals, LAMBDA x : x.t # "nan")
        pos  == \E i \in 1..Len(kept) : kept[i] = PInf
        neg  == \E i \in 1..Len(kept) : kept[i] = NInf
    IN  IF kept = <<>> \/ (pos /\ neg) THEN [t |-> "nan", num |-> 0, den |-> 1]
        ELSE IF pos THEN [t |-> "inf", num |-> 1, den |-> 1]
        ELSE IF neg THEN [t |-> "inf", num |-> -1, den |-> 1]
        ELSE [t |-> "fin", num |-> SumFin(kept), den |-> Len(kept)]

\* num/den rounded to an integer, ties to even (the model's numbers are
\* multiples of 0.5 over at most four rows, so a tie is exact in binary).
RoundHalfEven(num, den) ==
    LET q == num \div den
        r == num % den
    IN  IF 2 * r < den THEN q
        ELSE IF 2 * r > den THEN q + 1
        ELSE IF q % 2 = 0 THEN q ELSE q + 1

RECURSIVE DecStr(_)
DecStr(n) ==
    IF n < 10 THEN <<DigitChar(n)>>
    ELSE DecStr(n \div 10) \o <<DigitChar(n % 10)>>

Abs(n) == IF n < 0 THEN 0 - n ELSE n

\* f"{x:.1f}" as a text.
Format1f(x) ==
    IF x.t = "nan" THEN <<"n", "a", "n">>
    ELSE IF x.t = "inf"
    THEN (IF x.num < 0 THEN <<"-">> ELSE <<>>) \o <<"i", "n", "f">>
    ELSE LET t == RoundHalfEven(x.num, x.den) IN
         (IF t < 0 THEN <<"-">> ELSE <<>>)
           \o DecStr(Abs(t) \div 10) \o <<".", DigitChar(Abs(t) % 10)>>

(***************************************************************************)
(* Program constants.                                                      *)
(***************************************************************************)
TTL == 300

SHEET_URL == "SHEET_URL"

\* The default sub-table name, '클러스터별' ("by cluster").
DefaultSheetName == "by_cluster"

\* The filter sentinel '전체' ("all") as a text, and as a cell value.
ALL == <<"JEON", "CHE">>

display_columns == <<"cluster", "empno", "name", "dept", "hours">>

(***************************************************************************)
(* Tables.  A DataFrame is its column set and its rows, each row a         *)
(* function from the columns to cells.                                     *)
(***************************************************************************)
EmptyDF == [cols |-> {}, rows |-> <<>>]

Range(s) == {s[i] : i \in 1..Len(s)}

\* pd.DataFrame(data) of a list of records: the columns are the union of
\* the records' keys, a key a record lacks is NaN in its row, and an empty
\* list gives the empty frame.
DataFrame(data) ==
    LET cols == UNION {DOMAIN data[i] : i \in 1..Len(data)} IN
    [cols |-> cols,
     rows |-> [i \in 1..Len(data) |->
                 [c \in cols |-> IF c \in DOMAIN data[i] THEN data[i][c] ELSE NaN]]]

\* df.empty
empty(df) == Len(df.rows) = 0 \/ df.cols = {}

\* df['hours'] = pd.to_numeric(df['hours'], errors='coerce').fillna(0)
MutCoerceWithoutFillna(df) ==
    [df EXCEPT !.rows =
        [i \in 1..Len(df.rows) |->
            [c \in df.cols |->
                IF c = "hours" THEN to_numeric(df.rows[i][c]) ELSE df.rows[i][c]]]]
CoerceHours(df) ==
    [df EXCEPT !.rows =
        [i \in 1..Len(df.rows) |->
            [c \in df.cols |->
                IF c = "hours" THEN fillna0(to_numeric(df.rows[i][c]))
                ELSE df.rows[i][c]]]]

(***************************************************************************)
(* load_simple_data.  `o` is what the data source answers to this call's   *)
(* open_by_url / worksheet / get_all_records: the records, the sub-table   *)
(* missing (WorksheetNotFound) or any other error.  The result says what   *)
(* the body returned or raised, what it reported with st.error and how     *)
(* often it asked the data source.                                         *)
(***************************************************************************)
Returned(df, reports, fetches) ==
    [raised |-> FALSE, ret |-> df, reports |-> reports, fetches |-> fetches]

MutLoadRaisesOnError(_client, o) ==
    IF _client = "None" THEN Returned(EmptyDF, <<>>, 0)
    ELSE IF o.kind = "notfound" THEN Returned(EmptyDF, <<"SubtableNotFound">>, 1)
    ELSE IF o.kind = "error"
    THEN [raised |-> TRUE, ret |-> EmptyDF, reports |-> <<>>, fetches |-> 1]
    ELSE Returned(CoerceHours(DataFrame(o.data)), <<>>, 1)
load_simple_data(_client, o) ==
    IF _client = "None" THEN Returned(EmptyDF, <<>>, 0)
    ELSE IF o.kind = "notfound" THEN Returned(EmptyDF, <<"SubtableNotFound">>, 1)
    ELSE IF o.kind = "error" THEN Returned(EmptyDF, <<"LoadFailure">>, 1)
    ELSE LET df == DataFrame(o.data) IN
         Returned(IF "hours" \in df.cols THEN CoerceHours(df) ELSE df, <<>>, 1)

(***************************************************************************)
(* @st.cache_data(ttl=300): the entry of a call is found by the hashed     *)
(* arguments; `_client` starts with an underscore and is not hashed.  An    *)
(* entry is served while it is younger than the TTL, counted from the call *)
(* that stored it.                                                         *)
(***************************************************************************)
SheetNames == {DefaultSheetName, "RAW"}

Keys == {<<SHEET_URL, n>> : n \in SheetNames}

CacheKey(_client, sheet_url, sheet_name) == <<sheet_url, sheet_name>>

NoEntry == [set |-> FALSE, at |-> 0, val |-> EmptyDF]

\* History of a cache key: the call that last stored an entry for it (when,
\* what, by which session, with which handle) and the call before this one.
NoPop == [set |-> FALSE, at |-> 0, val |-> EmptyDF, by |-> 0, client |-> "None"]

MutNeverExpires(e, t) == e.set
Fresh(e, t) == e.set /\ t - e.at < TTL

\* One call of the cached load_simple_data by `session` at the current
\* time: what it returns, and the cache and the history after it.
CachedLoad(session, _client, sheet_url, sheet_name, o) ==
    LET k   == CacheKey(_client, sheet_url, sheet_name)
        e   == cache[k]
        hit == Fresh(e, now)
        r   == load_simple_data(_client, o)
        ret == IF hit THEN e.val ELSE r.ret
    IN  [cache |-> IF hit \/ r.raised THEN cache
                   ELSE [cache EXCEPT ![k] =
                            [set |-> TRUE, at |-> now, val |-> r.ret]],
         call  |-> [n |-> call.n + 1, session |-> session, client |-> _client,
                    name |-> sheet_name, at |-> now, ran |-> ~hit,
                    raised |-> ~hit /\ r.raised,
                    fetches |-> IF hit THEN 0 ELSE r.fetches,
                    reports |-> IF hit THEN <<>> ELSE r.reports,
                    asked |-> IF r.fetches = 0 \/ hit THEN "none" ELSE o.kind,
                    data |-> IF r.fetches = 0 \/ hit THEN <<>> ELSE o.data,
                    ret |-> ret,
                    prev |-> hist.last[sheet_name],
                    pop |-> hist.pop[sheet_name]],
         hist  |-> [hist EXCEPT
                      !.last[sheet_name] = [set |-> TRUE, at |-> now, val |-> ret],
                      !.pop[sheet_name] =
                          IF hit \/ r.raised THEN @
                          ELSE [set |-> TRUE, at |-> now, val |-> r.ret,
                                by |-> session, client |-> _client]]]

NoCall ==
    [n |-> 0, session |-> 0, client |-> "None", name |-> DefaultSheetName,
     at |-> 0, ran |-> FALSE, raised |-> FALSE, fetches |-> 0, reports |-> <<>>,
     asked |-> "none", data |-> <<>>, ret |-> EmptyDF, prev |-> NoEntry,
     pop |-> NoPop]

(***************************************************************************)
(* authorize_gspread.  The credential file is absent, valid or malformed,  *)
(* and so is the secret the entry point looks for: streamlit_app.py tests  *)
(* for the key private_key at the top level of st.secrets, app.py for the  *)
(* key gcp_service_account.  `ok` is whether gspread.authorize succeeds.   *)
(***************************************************************************)
FileStates == {"absent", "valid", "malformed"}

SecretStates == {"absent", "valid", "malformed"}

Variants == {"streamlit_app", "app"}

\* os.path.exists(SERVICE_ACCOUNT_FILE)
FileExists(e) == e.file # "absent"

\* "private_key" in st.secrets   /   "gcp_service_account" in st.secrets
SecretKey(v) == IF v = "streamlit_app" THEN "private_key" ELSE "gcp_service_account"

SecretPresent(v, e) == e.secret # "absent"

\* Credentials.from_service_account_file / _info raise on unusable material.
Malformed(source, e) ==
    IF source = "file" THEN e.file = "malformed"
    ELSE e.secret = "malformed"

Resolved(raised, ret, reports, source, consulted, attempted) ==
    [raised |-> raised, ret |-> ret, reports |-> reports, source |-> source,
     consulted |-> consulted, attempted |-> attempted]

\* The try block around gspread.authorize(creds).
Authorize(source, consulted, ok) ==
    IF ok THEN Resolved(FALSE, "client", <<>>, source, consulted, TRUE)
    ELSE Resolved(FALSE, "None", <<"AuthFailure">>, source, consulted, TRUE)

NoCredentialReports(v) ==
    IF v = "streamlit_app" THEN <<"NoCredential", "NoCredentialHint">>
    ELSE <<"NoCredential">>

MutSecretBeforeFile(v, e, ok) ==
    IF SecretPresent(v, e)
    THEN IF Malformed("secret", e)
         THEN Resolved(TRUE, "None", <<>>, "secret", TRUE, FALSE)
         ELSE Authorize("secret", TRUE, ok)
    ELSE IF FileExists(e)
    THEN IF Malformed("file", e)
         THEN Resolved(TRUE, "None", <<>>, "file", TRUE, FALSE)
         ELSE Authorize("file", TRUE, ok)
    ELSE Resolved(FALSE, "None", NoCredentialReports(v), "none", TRUE, FALSE)
authorize_gspread(v, e, ok) ==
    IF FileExists(e)
    THEN IF Malformed("file", e)
         THEN Resolved(TRUE, "None", <<>>, "file", FALSE, FALSE)
         ELSE Authorize("file", FALSE, ok)
    ELSE IF SecretPresent(v, e)
    THEN IF Malformed("secret", e)
         THEN Resolved(TRUE, "None", <<>>, "secret", TRUE, FALSE)
         ELSE Authorize("secret", TRUE, ok)
    ELSE Resolved(FALSE, "None", NoCredentialReports(v), "none", TRUE, FALSE)

\* @st.cache_resource: a returned value (a client or None) is stored for the
\* life of the process and later calls do not run the body; a call that
\* raises stores nothing.
NoMemo == [set |-> FALSE, val |-> "None"]

NoResolve ==
    [ran |-> FALSE, file |-> "absent", present |-> FALSE, ok |-> FALSE,
     r |-> Resolved(FALSE, "None", <<>>, "none", FALSE, FALSE)]

CachedResolve(ok) ==
    LET r == authorize_gspread(variant, env, ok) IN
    IF memo.set
    THEN [memo |-> memo, raised |-> FALSE, ret |-> memo.val, reports |-> <<>>,
          hist |-> hist]
    ELSE [memo |-> IF r.raised THEN memo ELSE [set |-> TRUE, val |-> r.ret],
          raised |-> r.raised, ret |-> r.ret, reports |-> r.reports,
          hist |-> [hist EXCEPT
                      !.resolves = @ + 1,
                      !.auths = @ + (IF r.attempted THEN 1 ELSE 0),
                      !.first = IF @.set \/ r.raised THEN @
                                ELSE [set |-> TRUE, val |-> r.ret],
                      !.res = [ran |-> TRUE, file |-> env.file,
                               present |-> SecretPresent(variant, env),
                               ok |-> ok, r |-> r]]]

(***************************************************************************)
(* The page script, one action per stage.                                  *)
(***************************************************************************)
NoDisplay == [cols |-> <<>>, rows |-> <<>>]

IdleRun ==
    [pc |-> "idle", session |-> 0, client |-> "None", loaded |-> FALSE,
     df_raw |-> EmptyDF, available_columns |-> <<>>, missing_columns |-> <<>>,
     all_clusters |-> <<>>, picked |-> 0, selected_cluster |-> Str(<<>>),
     df_display |-> NoDisplay, msgs |-> <<>>, stages |-> <<>>,
     filter_shown |-> FALSE, table_shown |-> FALSE, metric |-> <<>>,
     error |-> "none"]

Ended == {"idle", "done", "crashed"}

Advance(r, pc) == [r EXCEPT !.pc = pc, !.stages = Append(@, pc)]

Crash(r, error) == [Advance(r, "crashed") EXCEPT !.error = error]

\* `if client:`
MutTruthyAlways(client) == TRUE
Truthy(client) == client # "None"

\* [col for col in display_columns if col in df_raw.columns]
MutAvailableIsDisplay(df) == display_columns
available_columns(df) == SelectSeq(display_columns, LAMBDA c : c \in df.cols)

\* [col for col in display_columns if col not in df_raw.columns]
missing_columns(df) == SelectSeq(display_columns, LAMBDA c : c \notin df.cols)

\* ['ALL'] + sorted(df_raw['cluster'].unique().tolist()); KeyError without
\* the column, TypeError when text and numbers are to be ordered.
all_clusters(df) ==
    IF "cluster" \notin df.cols THEN [ok |-> FALSE, error |-> "KeyError", val |-> <<>>]
    ELSE LET s == sorted({df.rows[i]["cluster"] : i \in 1..Len(df.rows)}) IN
         IF s.ok THEN [ok |-> TRUE, error |-> "none", val |-> <<Str(ALL)>> \o s.val]
         ELSE [ok |-> FALSE, error |-> "TypeError", val |-> <<>>]

\* df[cols] of the given rows.
Project(rows, cols) ==
    [cols |-> cols,
     rows |-> [i \in 1..Len(rows) |-> [c \in Range(cols) |-> rows[i][c]]]]

\* The rows shown: all of them for the sentinel, else those of the cluster.
df_display(df, cols, selected) ==
    IF selected = Str(ALL) THEN Project(df.rows, cols)
    ELSE Project(SelectSeq(df.rows, LAMBDA r : r["cluster"] = selected), cols)

\* df_display['hours'].mean()
avg_hours(d) == mean([i \in 1..Len(d.rows) |-> d.rows[i]["hours"]])

\* The unit suffix ' 시간' of the metric.
Unit == <<" ", "SI", "GAN">>

Sessions == 1..MaxSessions

\* A page run starts: the next session loads the page.
StartRun ==
    /\ run.pc \in Ended
    /\ hist.nruns < MaxRuns
    /\ run' = [Advance(IdleRun, "authorize") EXCEPT !.session = hist.nruns + 1]
    /\ hist' = [hist EXCEPT !.nruns = @ + 1]
    /\ UNCHANGED <<variant, env, memo, cache, now, call>>

\* client = authorize_gspread()
AuthorizeStep ==
    /\ run.pc = "authorize"
    /\ \E ok \in BOOLEAN :
          LET c == CachedResolve(ok) IN
          /\ memo' = c.memo
          /\ hist' = c.hist
          /\ run' = IF c.raised THEN Crash(run, "CredentialError")
                    ELSE [Advance(run, "load") EXCEPT
                             !.client = c.ret, !.msgs = @ \o c.reports]
    /\ UNCHANGED <<variant, env, cache, now, call>>

\* if client: df_raw = load_simple_data(client, SHEET_URL, ...) else: warning
LoadStep(o) ==
    /\ run.pc = "load"
    /\ IF Truthy(run.client)
       THEN    LET c == CachedLoad(run.session, run.client, SHEET_URL,
                                   DefaultSheetName, o) IN
               /\ cache' = c.cache
               /\ call' = c.call
               /\ hist' = c.hist
               /\ run' = IF c.call.raised
                         THEN [Crash(run, "LoadError") EXCEPT !.loaded = TRUE]
                         ELSE [Advance(run, "columns") EXCEPT
                                  !.loaded = TRUE, !.df_raw = c.call.ret,
                                  !.msgs = @ \o c.call.reports]
       ELSE /\ run' = [Advance(run, "done") EXCEPT !.msgs = Append(@, "AuthWarning")]
            /\ UNCHANGED <<cache, call, hist>>
    /\ UNCHANGED <<variant, env, memo, now>>

\* if not df_raw.empty: the column lists and the warning; else: the error
ColumnsStep ==
    /\ run.pc = "columns"
    /\ run' = IF ~empty(run.df_raw)
              THEN LET missing == missing_columns(run.df_raw) IN
                   [Advance(run, "filter") EXCEPT
                       !.available_columns = available_columns(run.df_raw),
                       !.missing_columns = missing,
                       !.msgs = IF missing # <<>>
                                THEN Append(@, "MissingColumnsWarning") ELSE @]
              ELSE [Advance(run, "done") EXCEPT
                       !.msgs = Append(@, "LoadFailedMessage")]
    /\ UNCHANGED <<variant, env, memo, cache, now, call, hist>>

\* if available_columns: the filter control and the operator's choice
FilterStep ==
    /\ run.pc = "filter"
    /\ IF run.available_columns # <<>>
       THEN LET a == all_clusters(run.df_raw) IN
            IF a.ok
            THEN \E i \in 1..Len(a.val) :
                    run' = [Advance(run, "display") EXCEPT
                               !.all_clusters = a.val, !.picked = i,
                               !.selected_cluster = a.val[i],
                               !.filter_shown = TRUE]
            ELSE run' = Crash(run, a.error)
       ELSE run' = [Advance(run, "done") EXCEPT
                       !.msgs = Append(@, "NoColumnsAvailable")]
    /\ UNCHANGED <<variant, env, memo, cache, now, call, hist>>

\* st.dataframe(df_display)
DisplayStep ==
    /\ run.pc = "display"
    /\ run' = [Advance(run, "metric") EXCEPT
                  !.df_display = df_display(run.df_raw, run.available_columns,
                                            run.selected_cluster),
                  !.table_shown = TRUE]
    /\ UNCHANGED <<variant, env, memo, cache, now, call, hist>>

\* st.metric(..., f"{avg_hours:.1f} ...")
MetricStep ==
    /\ run.pc = "metric"
    /\ run' = IF "hours" \in Range(run.df_display.cols)
              THEN [Advance(run, "done") EXCEPT
                       !.metric = Format1f(avg_hours(run.df_display)) \o Unit]
              ELSE Crash(run, "KeyError")
    /\ UNCHANGED <<variant, env, memo, cache, now, call, hist>>

(***************************************************************************)
(* What the data source may answer.                                        *)
(***************************************************************************)
Wanted == Range(display_columns)

\* A column of the sheet that the page does not ask for ('비고').
Extra == "memo"

Absent == [t |-> "absent", s |-> <<>>, v |-> 0]

\* One record of get_all_records: row i of a sheet with columns `cols`, its
\* cluster and hours cells as given (no hours key at all for Absent), the
\* other cells texts that depend on the row only.
MkRow(cols, i, cl, h) ==
    [c \in (IF h = Absent THEN cols \ {"hours"} ELSE cols) |->
        CASE c = "cluster" -> cl
          [] c = "hours" -> h
          [] c = "empno" -> Str(<<"1", "0", DigitChar(i)>>)
          [] c = "name" -> Str(<<"n", DigitChar(i)>>)
          [] c = "dept" -> Str(<<"d">>)
          [] OTHER -> Str(<<"-">>)]

Ok(data) == [kind |-> "ok", data |-> data]
NotFound == [kind |-> "notfound", data |-> <<>>]
Failed   == [kind |-> "error", data |-> <<>>]

\* Scenario A's three rows (hours "20", "", "15.5") in a sheet with the
\* given columns.
ScenarioRows(cols) ==
    << MkRow(cols, 1, Str(<<"A">>), Str(<<"2", "0">>)),
       MkRow(cols, 2, Str(<<"B">>), Str(<<>>)),
       MkRow(cols, 3, Str(<<"A">>), Str(<<"1", "5", ".", "5">>)) >>

\* The page's sheet: the scenario rows under any subset of the wanted
\* columns, a sheet with a header only, no such sheet, or a failed fetch.
PageOutcomes ==
    {Ok(ScenarioRows(S \cup {Extra})) : S \in SUBSET Wanted}
        \cup {Ok(<<>>), NotFound, Failed}

LoadOutcomes == {Ok(ScenarioRows(Wanted \cup {Extra})), NotFound, Failed}

ClusterCells == {Str(<<"A">>), Str(<<"B">>), Str(ALL), Fin(10)}

HoursCells ==
    {Str(<<"2", "0">>), Str(<<>>), Str(<<"1", "5", ".", "5">>),
     Str(<<"a", "b", "c">>), Str(<<"i", "n", "f">>), Str(<<"-", "i", "n", "f">>),
     Fin(125), Absent}

ViewColSets ==
    {Wanted \cup {Extra}, (Wanted \ {"dept"}) \cup {Extra},
     (Wanted \ {"cluster"}) \cup {Extra}, (Wanted \ {"hours"}) \cup {Extra}}

\* The records of a sheet with columns S whose row i has the cluster and
\* hours cells f[i].
ViewData(S, f) == [i \in DOMAIN f |-> MkRow(S, i, f[i][1], f[i][2])]

Handles == {"None", "client"}

Envs == [file : FileStates, secret : SecretStates]

(***************************************************************************)
(* The process: page runs, one session after the other within one cache   *)
(* window, and the operator editing the credential sources between runs.  *)
(***************************************************************************)
NoHist ==
    [nruns |-> 0, resolves |-> 0, auths |-> 0, first |-> NoMemo, res |-> NoResolve,
     last |-> [n \in SheetNames |-> NoEntry], pop |-> [n \in SheetNames |-> NoPop]]

Init ==
    /\ variant \in Variants
    /\ env \in Envs
    /\ memo = NoMemo
    /\ cache = [k \in Keys |-> NoEntry]
    /\ now = 0
    /\ run = IdleRun
    /\ call = NoCall
    /\ hist = NoHist

PageLoad == run.pc = "load" /\ \E o \in PageOutcomes : LoadStep(o)

Tick(step) ==
    /\ run.pc \in Ended
    /\ now + step <= MaxClock
    /\ now' = now + step
    /\ UNCHANGED <<variant, env, memo, cache, run, call, hist>>

EnvChange ==
    /\ run.pc \in Ended
    /\ hist.nruns > 0
    /\ hist.nruns < MaxRuns
    /\ \E e \in Envs : e # env /\ env' = e
    /\ UNCHANGED <<variant, memo, cache, now, run, call, hist>>

Next ==
    \/ StartRun
    \/ AuthorizeStep
    \/ PageLoad
    \/ ColumnsStep
    \/ FilterStep
    \/ DisplayStep
    \/ MetricStep
    \/ EnvChange

Spec == Init /\ [][Next]_vars

(***************************************************************************)
(* load_simple_data called directly, with any handle and sub-table name.   *)
(***************************************************************************)
InitLoad ==
    /\ variant = "streamlit_app"
    /\ env = [file |-> "valid", secret |-> "absent"]
    /\ memo = NoMemo
    /\ cache = [k \in Keys |-> NoEntry]
    /\ now = 0
    /\ run = IdleRun
    /\ call = NoCall
    /\ hist = NoHist

DirectCall ==
    /\ call.n < MaxCalls
    /\ \E s \in Sessions, h \in Handles, n \in SheetNames, o \in LoadOutcomes :
          LET c == CachedLoad(s, h, SHEET_URL, n, o) IN
          /\ cache' = c.cache
          /\ call' = c.call
          /\ hist' = c.hist
    /\ UNCHANGED <<variant, env, memo, now, run>>

LoadTick == Tick(TTL \div 2)

NextLoad == DirectCall \/ LoadTick

SpecLoad == InitLoad /\ [][NextLoad]_vars

(***************************************************************************)
(* One page run from the load on, over every sheet of the bounded family   *)
(* ViewData.                                                               *)
(***************************************************************************)
InitView ==
    /\ variant = "streamlit_app"
    /\ env = [file |-> "valid", secret |-> "absent"]
    /\ memo = [set |-> TRUE, val |-> "client"]
    /\ cache = [k \in Keys |-> NoEntry]
    /\ now = 0
    /\ run = [Advance(Advance(IdleRun, "authorize"), "load") EXCEPT
                 !.session = 1, !.client = "client"]
    /\ call = NoCall
    /\ hist = [NoHist EXCEPT !.nruns = 1, !.resolves = 1, !.auths = 1,
                             !.first = [set |-> TRUE, val |-> "client"]]

ViewLoad ==
    /\ run.pc = "load"
    /\ \E S \in ViewColSets, n \in 1..MaxViewRows :
          \E f \in [1..n -> ClusterCells \X HoursCells] : LoadStep(Ok(ViewData(S, f)))

NextView ==
    \/ ViewLoad
    \/ ColumnsStep
    \/ FilterStep
    \/ DisplayStep
    \/ MetricStep

SpecView == InitView /\ [][NextView]_vars

(***************************************************************************)
(* The claims.                                                             *)
(***************************************************************************)
Has(seq, x) == x \in Range(seq)

Rank(pc) ==
    CASE pc = "authorize" -> 1 [] pc = "load" -> 2 [] pc = "columns" -> 3
      [] pc = "filter" -> 4 [] pc = "display" -> 5 [] pc = "metric" -> 6
      [] OTHER -> 7

\* C1: no page run ends with an uncaught exception, whatever the state of
\* the credential sources, the answer of the data source and the columns of
\* the loaded table.
C1_NoUncaughtException == run.pc # "crashed"

\* C2: the resolver uses the credential file when it exists and then never
\* consults the secret; otherwise it uses the secret when present; with
\* neither it reports NoCredential and returns no handle without attempting
\* authorization; when the attempted authorization fails it reports
\* AuthFailure and returns no handle; a handle is returned only when a
\* source existed and the authorization succeeded.
C2_ResolverPriority ==
    LET h == hist.res IN
    h.ran =>
        /\ h.file # "absent" => h.r.source = "file" /\ ~h.r.consulted
        /\ h.file = "absent" /\ h.present => h.r.source = "secret"
        /\ h.file = "absent" /\ ~h.present =>
              /\ h.r.source = "none" /\ ~h.r.raised /\ ~h.r.attempted
              /\ h.r.ret = "None" /\ Has(h.r.reports, "NoCredential")
        /\ h.r.attempted /\ ~h.ok =>
              /\ ~h.r.raised /\ h.r.ret = "None"
              /\ h.r.reports = <<"AuthFailure">>
        /\ h.r.ret # "None" =>
              /\ h.r.source # "none" /\ h.r.attempted /\ h.ok /\ ~h.r.raised

\* The file is absent, the secret is present, and the resolver returned a
\* handle built from the secret.
C2_Witness ==
    /\ hist.res.ran /\ hist.res.file = "absent" /\ hist.res.present
    /\ hist.res.r.source = "secret" /\ hist.res.r.ret = "client"

\* C3: in one process the resolver's body and the authorization call run at
\* most once, and every later call of authorize_gspread returns what the
\* first call returned.
C3_ResolvedAtMostOnce ==
    /\ hist.resolves <= 1
    /\ hist.auths <= 1
    /\ hist.first.set /\ Rank(run.pc) >= 2 /\ run.pc # "crashed" /\ run.pc # "idle"
          => run.client = hist.first.val

\* C4 as stated: of any two calls for the same locator and sub-table name
\* less than TTL seconds apart, the second performs no fetch and returns
\* what the first returned; the first call after the entry has expired
\* fetches afresh.
C4_AnyTwoCallsWithinTTL ==
    call.n > 0 =>
        /\ call.prev.set /\ call.at - call.prev.at < TTL =>
              call.fetches = 0 /\ call.ret = call.prev.val
        /\ call.pop.set /\ call.at - call.pop.at >= TTL /\ call.client # "None" =>
              call.fetches = 1

\* C4 amended: a call made less than TTL seconds after the call that stored
\* the entry for its locator and sub-table name (by any session, with any
\* handle) runs no loader body, performs no fetch and returns the stored
\* content; any other call runs the loader afresh, with one fetch when its
\* handle is not null.
C4_CacheWindow ==
    call.n > 0 =>
        IF call.pop.set /\ call.at - call.pop.at < TTL
        THEN ~call.ran /\ call.fetches = 0 /\ call.ret = call.pop.val
        ELSE call.ran /\ (call.client # "None" => call.fetches = 1)

\* A call with a null handle served from the entry that another session
\* stored with a live handle, some time before.
C4_Witness ==
    /\ call.n > 0 /\ ~call.ran /\ call.fetches = 0
    /\ call.pop.set /\ call.at > call.pop.at /\ call.at - call.pop.at < TTL
    /\ call.session # call.pop.by
    /\ call.client = "None" /\ call.pop.client = "client"
    /\ ~empty(call.ret)

\* C5: load_simple_data never raises and asks the data source at most once
\* per call; whenever its body runs, a null handle gives an empty table with
\* no fetch and no report, a missing sub-table gives SubtableNotFound and an
\* empty table, and any other error gives LoadFailure and an empty table.
C5_LoaderNeverRaises ==
    call.n > 0 =>
        /\ ~call.raised
        /\ call.fetches <= 1
        /\ call.ran /\ call.client = "None" =>
              empty(call.ret) /\ call.fetches = 0 /\ call.reports = <<>>
        /\ call.asked = "notfound" =>
              empty(call.ret) /\ call.reports = <<"SubtableNotFound">>
        /\ call.asked = "error" =>
              empty(call.ret) /\ call.reports = <<"LoadFailure">>

\* A fetch that failed with an error other than a missing sub-table.
C5_Witness ==
    /\ call.n > 0 /\ call.ran /\ call.client # "None" /\ call.asked = "error"
    /\ call.fetches = 1

\* What the claim says a raw hours cell becomes.
C6_Expected(raw) ==
    CASE raw = Str(<<"2", "0">>) -> Fin(200)
      [] raw = Str(<<"1", "5", ".", "5">>) -> Fin(155)
      [] raw = Str(<<>>) -> Fin(0)
      [] raw = Str(<<"a", "b", "c">>) -> Fin(0)
      [] raw = Str(<<"i", "n", "f">>) -> PInf
      [] raw = Str(<<"-", "i", "n", "f">>) -> NInf
      [] raw = Fin(125) -> Fin(125)

C7_ColumnsPartition ==
    Has(run.stages, "columns") /\ run.pc # "columns" /\ ~empty(run.df_raw) =>
        LET a == run.available_columns
            m == run.missing_columns
            Ordered(q) ==
                \A i, j \in 1..Len(q) : i < j =>
                    \E x, y \in 1..Len(display_columns) :
                        x < y /\ display_columns[x] = q[i] /\ display_columns[y] = q[j]
        IN  /\ \A c \in Wanted : Has(a, c) <=> c \in run.df_raw.cols
            /\ \A c \in Wanted : Has(m, c) <=> c \notin run.df_raw.cols
            /\ Range(a) \cup Range(m) = Wanted
            /\ Len(a) + Len(m) = Len(display_columns)
            /\ Ordered(a) /\ Ordered(m)
            /\ Has(run.msgs, "MissingColumnsWarning") <=> m # <<>>
            /\ Has(run.stages, "filter")
            /\ run.table_shown => run.df_display.cols = a

\* Scenario B: only 'dept' is absent, the warning is shown and the table is
\* rendered with the other four columns.
C7_Witness ==
    /\ run.table_shown
    /\ run.missing_columns = <<"dept">>
    /\ Has(run.msgs, "MissingColumnsWarning")
    /\ run.df_display.cols = <<"cluster", "empno", "name", "hours">>
    /\ Len(run.df_display.rows) = 3

\* C8: the filter options are the sentinel followed by the distinct cluster
\* values in sorted order; the sentinel option shows every row, and the
\* option of a concrete value v shows exactly the rows whose cluster is v,
\* projected onto the available columns in the table's row order.
C8_FilterSelection ==
    run.table_shown =>
        LET df   == run.df_raw
            opts == run.all_clusters
            vals == {df.rows[i]["cluster"] : i \in 1..Len(df.rows)}
            want == IF run.picked = 1 THEN df.rows
                    ELSE SelectSeq(df.rows, LAMBDA r : r["cluster"] = opts[run.picked])
        IN  /\ opts[1] = Str(ALL)
            /\ Range(Tail(opts)) = vals
            /\ Len(opts) = 1 + Cardinality(vals)
            /\ \A i \in 2..(Len(opts) - 1) : CellLess(opts[i], opts[i + 1])
            /\ run.df_display = Project(want, run.available_columns)

\* C9: the metric shown is the mean of the hours of the rows displayed, to
\* one decimal place, and never the text of an undefined value.
C9_MetricIsMean ==
    run.metric # <<>> =>
        /\ run.metric = Format1f(avg_hours(run.df_display)) \o Unit
        /\ run.metric # <<"n", "a", "n">> \o Unit

\* C10: the stages of a run go strictly forward; the loader is called only
\* with the handle the resolver returned; filter, table and metric are
\* rendered only for a non-empty table with a wanted column; a run without
\* a handle ends with the configuration message, no load and nothing
\* rendered; a run whose load is empty ends with the failed-to-load message
\* and a run without wanted columns with the no-columns error, both with no
\* table and no metric.
C10_StagesGate ==
    LET rendered == run.filter_shown \/ run.table_shown \/ run.metric # <<>> IN
    /\ \A i \in 1..(Len(run.stages) - 1) :
          Rank(run.stages[i]) < Rank(run.stages[i + 1])
    /\ run.loaded => run.client # "None" /\ Has(run.stages, "load")
    /\ rendered =>
          run.loaded /\ ~empty(run.df_raw) /\ run.available_columns # <<>>
    /\ run.pc = "done" /\ run.client = "None" =>
          Has(run.msgs, "AuthWarning") /\ ~run.loaded /\ ~rendered
    /\ run.pc = "done" /\ run.loaded /\ empty(run.df_raw) =>
          Has(run.msgs, "LoadFailedMessage") /\ ~rendered
    /\ run.pc = "done" /\ run.loaded /\ ~empty(run.df_raw)
          /\ run.available_columns = <<>> =>
          Has(run.msgs, "NoColumnsAvailable") /\ ~rendered

\* Scenario D: the sub-table does not exist; the run reports it, shows the
\* failed-to-load message and ends without a table.
C10_Witness ==
    /\ run.pc = "done" /\ run.loaded /\ empty(run.df_raw)
    /\ Has(run.msgs, "SubtableNotFound")
    /\ Has(run.msgs, "LoadFailedMessage")
    /\ ~run.table_shown /\ run.metric = <<>>

====
